---- MODULE Spec2Model ----
(***************************************************************************)
(* Model of the nutrition tracker service (src/app.py): the two in-memory  *)
(* stores users_db and meals_db, the request handlers that read and write  *)
(* them, and the pure helpers the handlers call.                           *)
(*                                                                         *)
(* Strings are TLA+ strings; a character is a string of length 1.          *)
(* Numbers a request can carry are integers; a float is the record         *)
(* [nan, v]; a BMR is held in thousandths so that the formula's three      *)
(* decimals and the rounding to two decimals are exact integer facts.      *)
(***************************************************************************)
EXTENDS Integers, Sequences, FiniteSets, TLC

VARIABLES users_db, meals_db, users_json, meals_json, now, last, pc, local, food_items

vars == <<users_db, meals_db, users_json, meals_json, now, last, pc, local, food_items>>

(***************************************************************************)
(* Bounds of the model.                                                    *)
(***************************************************************************)
MaxMeals == 2
MaxTick == 1
MaxItems == 3

(***************************************************************************)
(* Python string methods used by the handlers.                             *)
(***************************************************************************)
UpperChars == "ABCDEFGHIJKLMNOPQRSTUVWXYZ"
LowerChars == "abcdefghijklmnopqrstuvwxyz"
Whitespace == {" ", "\t", "\n"}

CharAt(s, i) == SubSeq(s, i, i)

LowerChar(c) ==
  IF \E i \in 1..26 : CharAt(UpperChars, i) = c
    THEN CharAt(LowerChars, CHOOSE i \in 1..26 : CharAt(UpperChars, i) = c)
    ELSE c

UpperChar(c) ==
  IF \E i \in 1..26 : CharAt(LowerChars, i) = c
    THEN CharAt(UpperChars, CHOOSE i \in 1..26 : CharAt(LowerChars, i) = c)
    ELSE c

RECURSIVE lower(_)
lower(s) == IF s = "" THEN "" ELSE LowerChar(CharAt(s, 1)) \o lower(SubSeq(s, 2, Len(s)))

RECURSIVE lstrip(_)
lstrip(s) ==
  IF s # "" /\ CharAt(s, 1) \in Whitespace THEN lstrip(SubSeq(s, 2, Len(s))) ELSE s

RECURSIVE rstrip(_)
rstrip(s) ==
  IF s # "" /\ CharAt(s, Len(s)) \in Whitespace THEN rstrip(SubSeq(s, 1, Len(s) - 1)) ELSE s

strip(s) == rstrip(lstrip(s))

\* capitalize without the change of case
capitalize_unchanged(s) == s

capitalize(s) ==
  IF s = "" THEN "" ELSE UpperChar(CharAt(s, 1)) \o lower(SubSeq(s, 2, Len(s)))

\* str.split(sep) for a one-character separator: the pieces between the
\* separators, empty pieces kept.
RECURSIVE split(_, _)
split(s, sep) ==
  IF \E i \in 1..Len(s) : CharAt(s, i) = sep
    THEN LET i == CHOOSE j \in 1..Len(s) :
                    CharAt(s, j) = sep /\ \A k \in 1..(j - 1) : CharAt(s, k) # sep
         IN  <<SubSeq(s, 1, i - 1)>> \o split(SubSeq(s, i + 1, Len(s)), sep)
    ELSE <<s>>

StartsWith(s, p) == Len(s) >= Len(p) /\ SubSeq(s, 1, Len(p)) = p

(***************************************************************************)
(* JSON values a request body can carry, and Python's truthiness and       *)
(* float() on them.                                                        *)
(***************************************************************************)
Str(s) == [t |-> "str", s |-> s]
Num(n) == [t |-> "num", n |-> n]

Falsy(v) == (v.t = "str" /\ v.s = "") \/ (v.t = "num" /\ v.n = 0)

Float(n) == [nan |-> FALSE, v |-> n]
NaN == [nan |-> TRUE, v |-> 0]

Digits == "0123456789"
IsDigit(c) == \E i \in 1..10 : CharAt(Digits, i) = c
DigitVal(c) == (CHOOSE i \in 1..10 : CharAt(Digits, i) = c) - 1

RECURSIVE AllDigits(_)
AllDigits(s) == s = "" \/ (IsDigit(CharAt(s, 1)) /\ AllDigits(SubSeq(s, 2, Len(s))))

RECURSIVE DigitsVal(_)
DigitsVal(s) ==
  IF s = "" THEN 0
  ELSE 10 * DigitsVal(SubSeq(s, 1, Len(s) - 1)) + DigitVal(CharAt(s, Len(s)))

\* float(x): [err, f].  A JSON number converts to itself; a string is
\* stripped and read as "nan" or as an optionally signed run of digits, and
\* anything else is a ValueError.
float(v) ==
  IF v.t = "num" THEN [err |-> "none", f |-> Float(v.n)]
  ELSE LET s == lower(strip(v.s))
           signed == s # "" /\ CharAt(s, 1) \in {"+", "-"}
           body == IF signed THEN SubSeq(s, 2, Len(s)) ELSE s
       IN  IF body = "nan" THEN [err |-> "none", f |-> NaN]
           ELSE IF body # "" /\ AllDigits(body)
             THEN [err |-> "none",
                   f |-> Float(IF signed /\ CharAt(s, 1) = "-"
                                 THEN 0 - DigitsVal(body) ELSE DigitsVal(body))]
             ELSE [err |-> "ValueError", f |-> NaN]

\* Comparisons of floats: every comparison with nan is false.
FLe(x, n) == ~x.nan /\ x.v <= n
FGt(x, n) == ~x.nan /\ x.v > n

(***************************************************************************)
(* food_db: the catalog.                                                   *)
(***************************************************************************)
Nutrients == {"calories", "protein", "carbs", "fiber"}

Fact(c, p, cb, f) == [calories |-> c, protein |-> p, carbs |-> cb, fiber |-> f]

food_db ==
  [name \in {"Jeera Rice", "Dal", "Cucumber", "Roti", "Chicken Curry",
             "Paneer", "Salad", "Rice"} |->
     CASE name = "Jeera Rice"    -> Fact(250, 5, 45, 2)
       [] name = "Dal"           -> Fact(180, 12, 20, 5)
       [] name = "Cucumber"      -> Fact(16, 1, 4, 1)
       [] name = "Roti"          -> Fact(120, 3, 25, 3)
       [] name = "Chicken Curry" -> Fact(300, 25, 8, 1)
       [] name = "Paneer"        -> Fact(265, 18, 6, 0)
       [] name = "Salad"         -> Fact(25, 2, 5, 3)
       [] name = "Rice"          -> Fact(205, 4, 45, 1)]

ZeroNutrition == Fact(0, 0, 0, 0)

\* the loop leaving at the first name that is not in the catalog
RECURSIVE NutritionLoop_break(_, _)
NutritionLoop_break(total_nutrition, items) ==
  IF items = <<>> THEN total_nutrition
  ELSE LET item == Head(items)
       IN  IF item \in DOMAIN food_db
             THEN NutritionLoop_break([nutrient \in Nutrients |->
                                         total_nutrition[nutrient] + food_db[item][nutrient]],
                                      Tail(items))
             ELSE total_nutrition

\* calculate_nutrition: the loop over the items, left to right.
RECURSIVE NutritionLoop(_, _)
NutritionLoop(total_nutrition, items) ==
  IF items = <<>> THEN total_nutrition
  ELSE LET item == Head(items)
           next == IF item \in DOMAIN food_db
                     THEN [nutrient \in Nutrients |->
                             total_nutrition[nutrient] + food_db[item][nutrient]]
                     ELSE total_nutrition
       IN  NutritionLoop(next, Tail(items))

calculate_nutrition(items) == NutritionLoop(ZeroNutrition, items)

(***************************************************************************)
(* calculate_bmr, in thousandths: [raised, f].                             *)
(***************************************************************************)
calculate_bmr(gender, weight, height, age) ==
  IF lower(gender) = "male"
    THEN [raised |-> FALSE,
          f |-> IF weight.nan \/ height.nan \/ age.nan THEN NaN
                ELSE Float(88362 + (13397 * weight.v) + (4799 * height.v) - (5677 * age.v))]
  ELSE IF lower(gender) = "female"
    THEN [raised |-> FALSE,
          f |-> IF weight.nan \/ height.nan \/ age.nan THEN NaN
                ELSE Float(447593 + (9247 * weight.v) + (3098 * height.v) - (4330 * age.v))]
  ELSE [raised |-> TRUE, f |-> NaN]

\* round(x, 2) of a value in thousandths: the results the build can produce.
\* A value that ends in 5 thousandths has no exact double, so the double that
\* holds it may round either way.
round2(x) ==
  IF x.nan THEN {NaN}
  ELSE LET r == x.v % 10
           base == x.v - r
       IN  IF r < 5 THEN {Float(base)}
           ELSE IF r > 5 THEN {Float(base + 10)}
           ELSE {Float(base), Float(base + 10)}

(***************************************************************************)
(* validate_user_data: [raised, errors].                                   *)
(***************************************************************************)
required_fields == <<"name", "age", "weight", "height", "gender", "goal">>

RECURSIVE RequiredErrors(_, _)
RequiredErrors(data, fields) ==
  IF fields = <<>> THEN <<>>
  ELSE LET field == Head(fields)
       IN  (IF field \notin DOMAIN data \/ Falsy(data[field])
              THEN <<field \o " is required">> ELSE <<>>)
           \o RequiredErrors(data, Tail(fields))

NumberErrors(data, field, upper, rangeMsg, parseMsg) ==
  IF field \in DOMAIN data
    THEN LET x == float(data[field])
         IN  IF x.err = "ValueError" THEN <<parseMsg>>
             ELSE IF FLe(x.f, 0) \/ FGt(x.f, upper) THEN <<rangeMsg>>
             ELSE <<>>
    ELSE <<>>

validate_user_data(data) ==
  LET errors == RequiredErrors(data, required_fields)
                \o NumberErrors(data, "age", 150, "Age must be between 1 and 150",
                                "Age must be a valid number")
                \o NumberErrors(data, "weight", 500, "Weight must be between 1 and 500 kg",
                                "Weight must be a valid number")
                \o NumberErrors(data, "height", 300, "Height must be between 1 and 300 cm",
                                "Height must be a valid number")
  IN  IF "gender" \in DOMAIN data /\ data["gender"].t # "str"
        THEN [raised |-> TRUE, errors |-> errors]
      ELSE IF "gender" \in DOMAIN data /\ lower(data["gender"].s) \notin {"male", "female"}
        THEN [raised |-> FALSE, errors |-> errors \o <<"Gender must be 'male' or 'female'">>]
      ELSE [raised |-> FALSE, errors |-> errors]

(***************************************************************************)
(* The webhook pattern  log\s+(breakfast|lunch|dinner|snack):\s*(.+)       *)
(* matched at the start of the message, as re.match does.                  *)
(***************************************************************************)
meal_alternatives == <<"breakfast", "lunch", "dinner", "snack">>

WsRun(s) == Len(s) - Len(lstrip(s))

\* .+ : the longest run of characters other than newline.
RECURSIVE DotRun(_)
DotRun(s) ==
  IF s = "" \/ CharAt(s, 1) = "\n" THEN ""
  ELSE CharAt(s, 1) \o DotRun(SubSeq(s, 2, Len(s)))

NoMatch == [matched |-> FALSE, group1 |-> "", group2 |-> ""]

re_match(message) ==
  IF ~StartsWith(message, "log") THEN NoMatch
  ELSE LET afterLog == SubSeq(message, 4, Len(message))
           w == WsRun(afterLog)
           afterWs == SubSeq(afterLog, w + 1, Len(afterLog))
           alts == {i \in 1..Len(meal_alternatives) : StartsWith(afterWs, meal_alternatives[i])}
       IN  IF w = 0 \/ alts = {} THEN NoMatch
           ELSE LET a == CHOOSE i \in alts : \A j \in alts : i <= j
                    g1 == meal_alternatives[a]
                    afterAlt == SubSeq(afterWs, Len(g1) + 1, Len(afterWs))
                IN  IF ~StartsWith(afterAlt, ":") THEN NoMatch
                    ELSE LET r == SubSeq(afterAlt, 2, Len(afterAlt))
                             K == {k \in 0..WsRun(r) : k < Len(r) /\ CharAt(r, k + 1) # "\n"}
                         IN  IF K = {} THEN NoMatch
                             ELSE LET k == CHOOSE i \in K : \A j \in K : j <= i
                                  IN  [matched |-> TRUE, group1 |-> g1,
                                       group2 |-> DotRun(SubSeq(r, k + 1, Len(r)))]

RECURSIVE StripEach(_)
StripEach(items) ==
  IF items = <<>> THEN <<>> ELSE <<strip(Head(items))>> \o StripEach(Tail(items))


(***************************************************************************)
(* The clock.  now counts ticks; datetime.now() reads it.                  *)
(***************************************************************************)
TwoDigits(n) == CharAt(Digits, (n \div 10) + 1) \o CharAt(Digits, (n % 10) + 1)

\* datetime.isoformat(): "YYYY-MM-DDTHH:MM:SS"; one tick is a day and an hour.
isoformat(tick) ==
  "2024-01-" \o TwoDigits(1 + tick) \o "T" \o TwoDigits(8 + (tick % 12)) \o ":00:00"

\* datetime.strftime('%Y-%m-%d')
strftime(tick) == "2024-01-" \o TwoDigits(1 + tick)

\* loggedAt[:10]
First10(s) == SubSeq(s, 1, IF Len(s) < 10 THEN Len(s) ELSE 10)

(***************************************************************************)
(* Request bodies the model sends.                                         *)
(***************************************************************************)
EmptyDict == [f \in {} |-> 0]

Person(name, age, gender) ==
  [name |-> name, age |-> age, weight |-> Num(70), height |-> Num(170),
   gender |-> gender, goal |-> Str("lose")]

RegisterInputs ==
  << Person(Str("amy"), Num(30), Str("male")),
     Person(Str(" amy "), Str("31"), Str("MALE")),
     Person(Str("  "), Str("nan"), Str("Female")),
     Person(Str("amy"), Num(200), Str("male")),
     Person(Str("amy"), Str("abc"), Num(1)),
     [name |-> Str("amy"), age |-> Num(0)],
     EmptyDict >>

List(l) == [t |-> "list", l |-> l]

LogMealsInputs ==
  << [user |-> Str(" amy "), meal |-> Str(" DINNER "), items |-> List(<<"Pizza", "Dal", "Dal">>)],
     [user |-> Str("zed"), meal |-> Str("brunch"), items |-> List(<<>>)],
     [user |-> Str("amy"), meal |-> Str("brunch"), items |-> List(<<"Dal">>)],
     [user |-> Str("amy"), meal |-> Str("lunch"), items |-> List(<<>>)],
     [user |-> Str("zed"), meal |-> Str("lunch")] >>

WebhookInputs ==
  << [message |-> Str("Log Lunch: Jeera Rice, Dal, Cucumber"), user |-> Str(" amy ")],
     [message |-> Str("  LOG \t dinner: \n rice\nroti ")],
     [message |-> Str("hello"), user |-> Str("zed")],
     [user |-> Str("zed")] >>

QueryUsers == {"amy", "zed"}

QueryDates == {strftime(0)}

(***************************************************************************)
(* save_data(): both files are rewritten with the stores' contents.        *)
(***************************************************************************)
save_data(users, meals) ==
  /\ users_json' = users
  /\ meals_json' = meals

Response(op, data, status, body) ==
  [op |-> op, data |-> data, status |-> status, body |-> body]

Unchanged == UNCHANGED <<users_db, meals_db, users_json, meals_json>>

Put(db, key, value) == [k \in DOMAIN db \cup {key} |-> IF k = key THEN value ELSE db[k]]

(***************************************************************************)
(* POST /register.  register_request is what the handler derives from the  *)
(* request body alone (lines 123-132 and 136-150); it is computed once per *)
(* body in RegisterRequests.  register_user is the handler.                *)
(***************************************************************************)
\* the request's name taken as it came, not stripped
register_request_unstripped(data) ==
  LET validation == validate_user_data(data)
      passed == DOMAIN data # {} /\ ~validation.raised /\ validation.errors = <<>>
      named == passed /\ data["name"].t = "str"
  IN  [validation |-> validation,
       username |-> IF named THEN data["name"].s ELSE "",
       bmr |-> IF named
                 THEN calculate_bmr(data["gender"].s, float(data["weight"]).f,
                                    float(data["height"]).f, float(data["age"]).f).f
                 ELSE NaN,
       age |-> IF named THEN float(data["age"]).f ELSE NaN,
       weight |-> IF named THEN float(data["weight"]).f ELSE NaN,
       height |-> IF named THEN float(data["height"]).f ELSE NaN,
       gender |-> IF named THEN lower(data["gender"].s) ELSE ""]

register_request(data) ==
  LET validation == validate_user_data(data)
      passed == DOMAIN data # {} /\ ~validation.raised /\ validation.errors = <<>>
      named == passed /\ data["name"].t = "str"
  IN  [validation |-> validation,
       username |-> IF named THEN strip(data["name"].s) ELSE "",
       bmr |-> IF named
                 THEN calculate_bmr(data["gender"].s, float(data["weight"]).f,
                                    float(data["height"]).f, float(data["age"]).f).f
                 ELSE NaN,
       age |-> IF named THEN float(data["age"]).f ELSE NaN,
       weight |-> IF named THEN float(data["weight"]).f ELSE NaN,
       height |-> IF named THEN float(data["height"]).f ELSE NaN,
       gender |-> IF named THEN lower(data["gender"].s) ELSE ""]

RegisterRequests == [i \in 1..Len(RegisterInputs) |-> register_request(RegisterInputs[i])]

register_user(data, r) ==
  IF DOMAIN data = {}
    THEN last' = Response("register", data, 400, [error |-> "No data provided"]) /\ Unchanged
  ELSE IF r.validation.raised
    THEN last' = Response("register", data, 500, [error |-> "AttributeError"]) /\ Unchanged
  ELSE IF r.validation.errors # <<>>
    THEN last' = Response("register", data, 400,
                           [error |-> "Validation failed", details |-> r.validation.errors]) /\ Unchanged
  ELSE IF data["name"].t # "str"
    THEN last' = Response("register", data, 500, [error |-> "AttributeError"]) /\ Unchanged
  ELSE IF r.username \in DOMAIN users_db
    THEN last' = Response("register", data, 409, [error |-> "User already exists"]) /\ Unchanged
  ELSE
    \E rounded \in round2(r.bmr) :
      LET user_data == [name |-> r.username,
                        age |-> r.age,
                        weight |-> r.weight,
                        height |-> r.height,
                        gender |-> r.gender,
                        goal |-> data["goal"],
                        bmr |-> rounded,
                        registered_at |-> isoformat(now)]
      IN  /\ users_db' = Put(users_db, r.username, user_data)
          /\ meals_db' = meals_db
          /\ save_data(users_db', meals_db')
          /\ last' = Response("register", data, 201, user_data)

Register ==
  /\ \E i \in 1..Len(RegisterInputs) : register_user(RegisterInputs[i], RegisterRequests[i])
  /\ UNCHANGED <<now, pc, local, food_items>>

(***************************************************************************)
(* POST /log_meals.  log_meals_request is what the handler derives from    *)
(* the request body alone (lines 174-181, 186-199).                        *)
(***************************************************************************)
valid_meals == {"breakfast", "lunch", "dinner", "snack"}

log_required_fields == <<"user", "meal", "items">>

log_meals_request(data) ==
  LET missing == {i \in 1..Len(log_required_fields) : log_required_fields[i] \notin DOMAIN data}
      typed == missing = {} /\ data["user"].t = "str" /\ data["meal"].t = "str"
      listed == missing = {} /\ data["items"].t = "list"
      meal_type == IF typed THEN lower(strip(data["meal"].s)) ELSE ""
  IN  [missing |-> IF missing = {} THEN ""
                   ELSE log_required_fields[CHOOSE i \in missing : \A j \in missing : i <= j],
       typed |-> typed,
       username |-> IF typed THEN strip(data["user"].s) ELSE "",
       meal_type |-> meal_type,
       listed |-> listed,
       mealType |-> capitalize(meal_type),
       nutrition |-> IF listed THEN calculate_nutrition(data["items"].l) ELSE ZeroNutrition]

LogMealsRequests == [i \in 1..Len(LogMealsInputs) |-> log_meals_request(LogMealsInputs[i])]

\* the handler putting the new entry at the head of meals_db
log_meals_prepend(data, r) ==
  IF DOMAIN data = {}
    THEN last' = Response("log_meals", data, 400, [error |-> "No data provided"]) /\ Unchanged
  ELSE IF r.missing # ""
    THEN last' = Response("log_meals", data, 400, [error |-> r.missing \o " is required"])
         /\ Unchanged
  ELSE IF ~r.typed
    THEN last' = Response("log_meals", data, 500, [error |-> "AttributeError"]) /\ Unchanged
  ELSE IF r.username \notin DOMAIN users_db
    THEN last' = Response("log_meals", data, 404, [error |-> "User not found"]) /\ Unchanged
  ELSE IF r.meal_type \notin valid_meals
    THEN last' = Response("log_meals", data, 400, [error |-> "Meal type must be one of"])
         /\ Unchanged
  ELSE IF ~r.listed \/ Len(data["items"].l) = 0
    THEN last' = Response("log_meals", data, 400, [error |-> "Items must be a non-empty array"])
         /\ Unchanged
  ELSE
    LET meal_entry == [userId |-> r.username,
                       mealType |-> r.mealType,
                       foodItems |-> data["items"].l,
                       nutrition |-> r.nutrition,
                       loggedAt |-> isoformat(now)]
    IN  /\ Len(meals_db) < MaxMeals
        /\ meals_db' = <<meal_entry>> \o meals_db
        /\ users_db' = users_db
        /\ save_data(users_db', meals_db')
        /\ last' = Response("log_meals", data, 201, meal_entry)

log_meals(data, r) ==
  IF DOMAIN data = {}
    THEN last' = Response("log_meals", data, 400, [error |-> "No data provided"]) /\ Unchanged
  ELSE IF r.missing # ""
    THEN last' = Response("log_meals", data, 400, [error |-> r.missing \o " is required"])
         /\ Unchanged
  ELSE IF ~r.typed
    THEN last' = Response("log_meals", data, 500, [error |-> "AttributeError"]) /\ Unchanged
  ELSE IF r.username \notin DOMAIN users_db
    THEN last' = Response("log_meals", data, 404, [error |-> "User not found"]) /\ Unchanged
  ELSE IF r.meal_type \notin valid_meals
    THEN last' = Response("log_meals", data, 400, [error |-> "Meal type must be one of"])
         /\ Unchanged
  ELSE IF ~r.listed \/ Len(data["items"].l) = 0
    THEN last' = Response("log_meals", data, 400, [error |-> "Items must be a non-empty array"])
         /\ Unchanged
  ELSE
    LET meal_entry == [userId |-> r.username,
                       mealType |-> r.mealType,
                       foodItems |-> data["items"].l,
                       nutrition |-> r.nutrition,
                       loggedAt |-> isoformat(now)]
    IN  /\ Len(meals_db) < MaxMeals
        /\ meals_db' = Append(meals_db, meal_entry)
        /\ users_db' = users_db
        /\ save_data(users_db', meals_db')
        /\ last' = Response("log_meals", data, 201, meal_entry)

LogMeals ==
  /\ \E i \in 1..Len(LogMealsInputs) : log_meals(LogMealsInputs[i], LogMealsRequests[i])
  /\ UNCHANGED <<now, pc, local, food_items>>

(***************************************************************************)
(* POST /webhook.  parse is lines 318-332; webhook_request is what the     *)
(* handler derives from the request body alone (lines 318-332, 346-352).   *)
(***************************************************************************)
parse(text) ==
  LET message == lower(strip(text))
      match == re_match(message)
  IN  [matched |-> match.matched,
       meal_type |-> match.group1,
       food_items |-> IF match.matched THEN StripEach(split(match.group2, ",")) ELSE <<>>]

webhook_request(data) ==
  LET texted == "message" \in DOMAIN data /\ data["message"].t = "str"
      parsed == IF texted THEN parse(data["message"].s)
                ELSE [matched |-> FALSE, meal_type |-> "", food_items |-> <<>>]
  IN  [user |-> IF "user" \in DOMAIN data THEN data["user"].s ELSE "default_user",
       parsed |-> parsed,
       mealType |-> capitalize(parsed.meal_type),
       nutrition |-> calculate_nutrition(parsed.food_items)]

WebhookRequests == [i \in 1..Len(WebhookInputs) |-> webhook_request(WebhookInputs[i])]

default_bmr == calculate_bmr("male", Float(70), Float(170), Float(25)).f

\* the default record with another age
DefaultUser_age30(user, tick) ==
  [name |-> user,
   age |-> Float(30),
   weight |-> Float(70),
   height |-> Float(170),
   gender |-> "male",
   goal |-> Str("maintain"),
   bmr |-> default_bmr,
   registered_at |-> isoformat(tick)]

DefaultUser(user, tick) ==
  [name |-> user,
   age |-> Float(25),
   weight |-> Float(70),
   height |-> Float(170),
   gender |-> "male",
   goal |-> Str("maintain"),
   bmr |-> default_bmr,
   registered_at |-> isoformat(tick)]

webhook(data, r) ==
  IF DOMAIN data = {} \/ "message" \notin DOMAIN data
    THEN last' = Response("webhook", data, 400, [error |-> "Message is required"]) /\ Unchanged
  ELSE IF data["message"].t # "str"
    THEN last' = Response("webhook", data, 500, [error |-> "AttributeError"]) /\ Unchanged
  ELSE IF ~r.parsed.matched
    THEN last' = Response("webhook", data, 400, [error |-> "Invalid message format"]) /\ Unchanged
  ELSE
    LET meal_entry == [userId |-> r.user,
                       mealType |-> r.mealType,
                       foodItems |-> r.parsed.food_items,
                       nutrition |-> r.nutrition,
                       loggedAt |-> isoformat(now)]
    IN  /\ Len(meals_db) < MaxMeals
        /\ users_db' = IF r.user \notin DOMAIN users_db
                         THEN Put(users_db, r.user, DefaultUser(r.user, now))
                         ELSE users_db
        /\ meals_db' = Append(meals_db, meal_entry)
        /\ save_data(users_db', meals_db')
        /\ last' = Response("webhook", data, 201,
                     [meal_type |-> r.parsed.meal_type,
                      food_items |-> r.parsed.food_items,
                      nutrition |-> r.nutrition])

Webhook ==
  /\ \E i \in 1..Len(WebhookInputs) : webhook(WebhookInputs[i], WebhookRequests[i])
  /\ UNCHANGED <<now, pc, local, food_items>>

(***************************************************************************)
(* GET /meals/<user>, GET /meals/<user>/<date>, GET /status/<user>         *)
(***************************************************************************)
RECURSIVE UserMeals(_, _)
UserMeals(meals, user) ==
  IF meals = <<>> THEN <<>>
  ELSE (IF Head(meals).userId = user THEN <<Head(meals)>> ELSE <<>>)
       \o UserMeals(Tail(meals), user)

\* the filter that forgets the date
MealsOn_any(meals, date) == meals

RECURSIVE MealsOn(_, _)
MealsOn(meals, date) ==
  IF meals = <<>> THEN <<>>
  ELSE (IF First10(Head(meals).loggedAt) = date THEN <<Head(meals)>> ELSE <<>>)
       \o MealsOn(Tail(meals), date)

RECURSIVE SumNutrition(_, _)
SumNutrition(total, meals) ==
  IF meals = <<>> THEN total
  ELSE SumNutrition([nutrient \in Nutrients |-> total[nutrient] + Head(meals).nutrition[nutrient]],
                    Tail(meals))

get_user_meals(user) ==
  IF user \notin DOMAIN users_db
    THEN last' = Response("get_user_meals", [user |-> user], 404, [error |-> "User not found"])
  ELSE LET user_meals == UserMeals(meals_db, user)
       IN  last' = Response("get_user_meals", [user |-> user], 200,
                     [total_meals |-> Len(user_meals), meals |-> user_meals])

get_user_meals_by_date(user, date) ==
  IF user \notin DOMAIN users_db
    THEN last' = Response("get_user_meals_by_date", [user |-> user, date |-> date], 404,
                          [error |-> "User not found"])
  ELSE LET user_meals == MealsOn(UserMeals(meals_db, user), date)
       IN  last' = Response("get_user_meals_by_date", [user |-> user, date |-> date], 200,
                     [total_meals |-> Len(user_meals), meals |-> user_meals])

get_user_status(user) ==
  IF user \notin DOMAIN users_db
    THEN last' = Response("get_user_status", [user |-> user], 404, [error |-> "User not found"])
  ELSE LET user_data == users_db[user]
           user_meals == UserMeals(meals_db, user)
           total_nutrition == SumNutrition(ZeroNutrition, user_meals)
           today == strftime(now)
           today_meals == MealsOn(user_meals, today)
           today_nutrition == SumNutrition(ZeroNutrition, today_meals)
       IN  last' = Response("get_user_status", [user |-> user], 200,
                     [bmr |-> user_data.bmr,
                      goal |-> user_data.goal,
                      total_nutrition_consumed |-> total_nutrition,
                      today_date |-> today,
                      today_nutrition |-> today_nutrition,
                      total_meals_logged |-> Len(user_meals),
                      meals_today |-> Len(today_meals)])

GetUserMeals ==
  /\ \E user \in QueryUsers : get_user_meals(user)
  /\ UNCHANGED <<users_db, meals_db, users_json, meals_json, now, pc, local, food_items>>

GetUserMealsByDate ==
  /\ \E user \in QueryUsers : \E date \in QueryDates : get_user_meals_by_date(user, date)
  /\ UNCHANGED <<users_db, meals_db, users_json, meals_json, now, pc, local, food_items>>

GetUserStatus ==
  /\ \E user \in QueryUsers : get_user_status(user)
  /\ UNCHANGED <<users_db, meals_db, users_json, meals_json, now, pc, local, food_items>>

\* Time passes between requests.
Tick ==
  /\ now < MaxTick
  /\ now' = now + 1
  /\ UNCHANGED <<users_db, meals_db, users_json, meals_json, last, pc, local, food_items>>

(***************************************************************************)
(* The service handling one request at a time.                             *)
(***************************************************************************)
NoResponse == Response("none", EmptyDict, 0, EmptyDict)

Threads == {1, 2}

Init ==
  /\ users_db = EmptyDict
  /\ meals_db = <<>>
  /\ users_json = EmptyDict
  /\ meals_json = <<>>
  /\ now = 0
  /\ last = NoResponse
  /\ pc = [t \in Threads |-> "idle"]
  /\ local = [t \in Threads |-> EmptyDict]
  /\ food_items = <<>>

Next ==
  \/ Register
  \/ LogMeals
  \/ Webhook
  \/ GetUserMeals
  \/ GetUserMealsByDate
  \/ GetUserStatus
  \/ Tick

Spec == Init /\ [][Next]_vars


(***************************************************************************)
(* calculate_nutrition on its own: food_items is the argument of one call. *)
(***************************************************************************)
ItemNames == {"Dal", "Rice", "Pizza", "dal"}

RECURSIVE ListsUpTo(_)
ListsUpTo(n) ==
  IF n = 0 THEN {<<>>}
  ELSE ListsUpTo(n - 1) \cup {Append(l, x) : l \in {m \in ListsUpTo(n - 1) : Len(m) = n - 1},
                                             x \in ItemNames}

Aggregate ==
  /\ last.op = "none"
  /\ last' = Response("calculate_nutrition", [food_items |-> food_items], 200,
                      calculate_nutrition(food_items))
  /\ UNCHANGED <<users_db, meals_db, users_json, meals_json, now, pc, local, food_items>>

AggInit ==
  /\ users_db = EmptyDict
  /\ meals_db = <<>>
  /\ users_json = EmptyDict
  /\ meals_json = <<>>
  /\ now = 0
  /\ last = NoResponse
  /\ pc = [t \in Threads |-> "idle"]
  /\ local = [t \in Threads |-> EmptyDict]
  /\ food_items \in ListsUpTo(MaxItems)

AggNext == Aggregate

AggSpec == AggInit /\ [][AggNext]_vars

(***************************************************************************)
(* The service under the threaded development server (app.run, line 394):  *)
(* every request runs in its own thread and the handlers take no lock, so  *)
(* a thread can be preempted between the membership test on users_db and   *)
(* the assignment that follows it.  Each thread serves one request.        *)
(***************************************************************************)
Goto(t, label, value) ==
  /\ pc' = [pc EXCEPT ![t] = label]
  /\ local' = [local EXCEPT ![t] = value]

\* register_user, lines 123-134: the checks
RegisterCheck(t, data, r) ==
  /\ pc[t] = "idle"
  /\ IF DOMAIN data = {}
       THEN Goto(t, "done", Response("register", data, 400, [error |-> "No data provided"]))
     ELSE IF r.validation.raised
       THEN Goto(t, "done", Response("register", data, 500, [error |-> "AttributeError"]))
     ELSE IF r.validation.errors # <<>>
       THEN Goto(t, "done", Response("register", data, 400,
                           [error |-> "Validation failed", details |-> r.validation.errors]))
     ELSE IF data["name"].t # "str"
       THEN Goto(t, "done", Response("register", data, 500, [error |-> "AttributeError"]))
     ELSE IF r.username \in DOMAIN users_db
       THEN Goto(t, "done", Response("register", data, 409, [error |-> "User already exists"]))
     ELSE Goto(t, "register_insert", [data |-> data, r |-> r])
  /\ UNCHANGED <<users_db, meals_db, users_json, meals_json, now, last, food_items>>

\* register_user, lines 136-154: build the record and store it
RegisterInsert(t) ==
  /\ pc[t] = "register_insert"
  /\ LET data == local[t].data
         r == local[t].r
     IN  \E rounded \in round2(r.bmr) :
           LET user_data == [name |-> r.username,
                             age |-> r.age,
                             weight |-> r.weight,
                             height |-> r.height,
                             gender |-> r.gender,
                             goal |-> data["goal"],
                             bmr |-> rounded,
                             registered_at |-> isoformat(now)]
           IN  /\ users_db' = Put(users_db, r.username, user_data)
               /\ Goto(t, "register_save", [data |-> data, user_data |-> user_data])
  /\ UNCHANGED <<meals_db, users_json, meals_json, now, last, food_items>>

\* register_user, lines 155-160: save and answer
RegisterSave(t) ==
  /\ pc[t] = "register_save"
  /\ save_data(users_db, meals_db)
  /\ Goto(t, "done", Response("register", local[t].data, 201, local[t].user_data))
  /\ UNCHANGED <<users_db, meals_db, now, last, food_items>>

\* webhook, lines 313-334: the parse and the membership test
WebhookCheck(t, data, r) ==
  /\ pc[t] = "idle"
  /\ IF DOMAIN data = {} \/ "message" \notin DOMAIN data
       THEN Goto(t, "done", Response("webhook", data, 400, [error |-> "Message is required"]))
     ELSE IF data["message"].t # "str"
       THEN Goto(t, "done", Response("webhook", data, 500, [error |-> "AttributeError"]))
     ELSE IF ~r.parsed.matched
       THEN Goto(t, "done", Response("webhook", data, 400, [error |-> "Invalid message format"]))
     ELSE IF r.user \notin DOMAIN users_db
       THEN Goto(t, "webhook_insert", [data |-> data, r |-> r])
     ELSE Goto(t, "webhook_append", [data |-> data, r |-> r])
  /\ UNCHANGED <<users_db, meals_db, users_json, meals_json, now, last, food_items>>

\* webhook, lines 335-344: store the default record
WebhookInsert(t) ==
  /\ pc[t] = "webhook_insert"
  /\ users_db' = Put(users_db, local[t].r.user, DefaultUser(local[t].r.user, now))
  /\ Goto(t, "webhook_append", local[t])
  /\ UNCHANGED <<meals_db, users_json, meals_json, now, last, food_items>>

\* webhook, lines 346-356: build the entry and append it
WebhookAppend(t) ==
  /\ pc[t] = "webhook_append"
  /\ LET r == local[t].r
     IN  meals_db' = Append(meals_db, [userId |-> r.user,
                                       mealType |-> r.mealType,
                                       foodItems |-> r.parsed.food_items,
                                       nutrition |-> r.nutrition,
                                       loggedAt |-> isoformat(now)])
  /\ Goto(t, "webhook_save", local[t])
  /\ UNCHANGED <<users_db, users_json, meals_json, now, last, food_items>>

\* webhook, lines 357-366: save and answer
WebhookSave(t) ==
  /\ pc[t] = "webhook_save"
  /\ save_data(users_db, meals_db)
  /\ LET r == local[t].r
     IN  Goto(t, "done", Response("webhook", local[t].data, 201,
                           [meal_type |-> r.parsed.meal_type,
                            food_items |-> r.parsed.food_items,
                            nutrition |-> r.nutrition]))
  /\ UNCHANGED <<users_db, meals_db, now, last, food_items>>

ConcRegisterCheck ==
  \E t \in Threads : \E i \in 1..Len(RegisterInputs) :
    RegisterCheck(t, RegisterInputs[i], RegisterRequests[i])

ConcRegisterInsert == \E t \in Threads : RegisterInsert(t)

ConcRegisterSave == \E t \in Threads : RegisterSave(t)

ConcWebhookCheck ==
  \E t \in Threads : \E i \in 1..Len(WebhookInputs) :
    WebhookCheck(t, WebhookInputs[i], WebhookRequests[i])

ConcWebhookInsert == \E t \in Threads : WebhookInsert(t)

ConcWebhookAppend == \E t \in Threads : WebhookAppend(t)

ConcWebhookSave == \E t \in Threads : WebhookSave(t)

ConcNext ==
  \/ ConcRegisterCheck
  \/ ConcRegisterInsert
  \/ ConcRegisterSave
  \/ ConcWebhookCheck
  \/ ConcWebhookInsert
  \/ ConcWebhookAppend
  \/ ConcWebhookSave
  \/ Tick

ConcSpec == Init /\ [][ConcNext]_vars


(***************************************************************************)
(* Properties.                                                             *)
(*                                                                         *)
(* Handled(op): the step is the handling of a request of kind op.  A       *)
(* request that repeats the previous one with the same answer and no       *)
(* effect leaves every variable as it was.                                 *)
(***************************************************************************)
Handled(op) ==
  /\ last'.op = op
  /\ <<users_db, meals_db, last>>' # <<users_db, meals_db, last>>

RegisterNamed(data) == "name" \in DOMAIN data /\ data["name"].t = "str"

RegisterValid(data) ==
  \E i \in 1..Len(RegisterInputs) :
    /\ RegisterInputs[i] = data
    /\ DOMAIN data # {}
    /\ ~RegisterRequests[i].validation.raised
    /\ RegisterRequests[i].validation.errors = <<>>

RegisterConflict ==
  /\ last'.status = 409
  /\ users_db' = users_db
  /\ meals_db' = meals_db

\* C1 as stated: a register request whose trimmed name is already a key of
\* users_db is answered 409 and changes neither store.
C1_AsStated ==
  [][(/\ Handled("register")
      /\ RegisterNamed(last'.data)
      /\ strip(last'.data["name"].s) \in DOMAIN users_db)
       => RegisterConflict]_vars

\* C1 amended: a register request that passes validation and whose trimmed
\* name is already a key of users_db is answered 409, and the stored record
\* for that name, the rest of users_db and meals_db are as before the call.
C1_ConflictKeepsStores ==
  [][(/\ Handled("register")
      /\ RegisterNamed(last'.data)
      /\ RegisterValid(last'.data)
      /\ strip(last'.data["name"].s) \in DOMAIN users_db)
       => RegisterConflict]_vars

\* A second registration of amy, with another age, answered 409 while the
\* first record is still stored.
C1_Witness ==
  /\ last.op = "register"
  /\ last.status = 409
  /\ last.data["name"].s = " amy "
  /\ "amy" \in DOMAIN users_db
  /\ users_db["amy"].age = Float(30)

LogNamed(data) == "user" \in DOMAIN data /\ data["user"].t = "str"

LogComplete(data) == {"user", "meal", "items"} \subseteq DOMAIN data /\ data["meal"].t = "str"

WebhookWellFormed(data) ==
  \E i \in 1..Len(WebhookInputs) :
    /\ WebhookInputs[i] = data
    /\ "message" \in DOMAIN data
    /\ data["message"].t = "str"
    /\ WebhookRequests[i].parsed.matched

WebhookUser(data) == IF "user" \in DOMAIN data THEN data["user"].s ELSE "default_user"

NotFoundNoEffect ==
  /\ last'.status = 404
  /\ users_db' = users_db
  /\ meals_db' = meals_db

AutoProvisioned ==
  LET user == WebhookUser(last'.data)
  IN  /\ last'.status = 201
      /\ DOMAIN users_db' = DOMAIN users_db \cup {user}
      /\ \A k \in DOMAIN users_db : users_db'[k] = users_db[k]
      /\ users_db'[user].name = user
      /\ users_db'[user].age = Float(25)
      /\ users_db'[user].weight = Float(70)
      /\ users_db'[user].height = Float(170)
      /\ users_db'[user].gender = "male"
      /\ users_db'[user].goal = Str("maintain")
      /\ Len(meals_db') = Len(meals_db) + 1
      /\ SubSeq(meals_db', 1, Len(meals_db)) = meals_db
      /\ meals_db'[Len(meals_db')].userId = user

WebhookUnknownUser ==
  (/\ Handled("webhook")
   /\ WebhookWellFormed(last'.data)
   /\ WebhookUser(last'.data) \notin DOMAIN users_db)
    => AutoProvisioned

\* C2 as stated: for a user that is not in users_db, a structured log-meal
\* request is answered 404 and changes neither store, and a well-formed
\* webhook request creates the default record, appends one entry and is
\* answered 201.
C2_AsStated ==
  [][/\ (/\ Handled("log_meals")
         /\ LogNamed(last'.data)
         /\ strip(last'.data["user"].s) \notin DOMAIN users_db)
          => NotFoundNoEffect
     /\ WebhookUnknownUser]_vars

\* C2 amended: for a user that is not in users_db, a structured log-meal
\* request that carries the user, meal and items fields is answered 404 and
\* changes neither store, and a well-formed webhook request creates the
\* default record (age 25, weight 70, height 170, male, "maintain"), appends
\* exactly one entry for that user and is answered 201.
C2_UnknownUser ==
  [][/\ (/\ Handled("log_meals")
         /\ LogNamed(last'.data)
         /\ LogComplete(last'.data)
         /\ strip(last'.data["user"].s) \notin DOMAIN users_db)
          => NotFoundNoEffect
     /\ WebhookUnknownUser]_vars

\* The webhook has just created default_user together with its first entry,
\* and zed, whom no request created, is still unknown.
C2_Witness ==
  /\ last.op = "webhook"
  /\ last.status = 201
  /\ "default_user" \in DOMAIN users_db
  /\ "zed" \notin DOMAIN users_db
  /\ Len(meals_db) >= 1
  /\ meals_db[Len(meals_db)].userId = "default_user"
  /\ users_db["default_user"].registered_at = meals_db[Len(meals_db)].loggedAt

\* C3: the webhook message "Log Lunch: Jeera Rice, Dal, Cucumber" is parsed
\* to meal type "lunch" and the items Jeera Rice, Dal, Cucumber in the
\* catalog's spelling, and the entry it logs holds the nutrition
\* {446, 18, 69, 8}.
C3_CatalogNutrition ==
  (/\ last.op = "webhook"
   /\ last.status = 201
   /\ last.data["message"].s = "Log Lunch: Jeera Rice, Dal, Cucumber")
    => /\ last.body.meal_type = "lunch"
       /\ last.body.food_items = <<"Jeera Rice", "Dal", "Cucumber">>
       /\ last.body.nutrition = Fact(446, 18, 69, 8)
       /\ meals_db[Len(meals_db)].nutrition = Fact(446, 18, 69, 8)


RECURSIVE SumOver(_, _, _)
SumOver(S, meals, nutrient) ==
  IF S = {} THEN 0
  ELSE LET i == CHOOSE j \in S : TRUE
       IN  meals[i].nutrition[nutrient] + SumOver(S \ {i}, meals, nutrient)

EntriesOf(user) == {i \in DOMAIN meals_db : meals_db[i].userId = user}

EntriesOn(user, date) == {i \in EntriesOf(user) : SubSeq(meals_db[i].loggedAt, 1, 10) = date}

\* C4: the status query of an existing user answers with the number of the
\* user's entries, the number of those whose loggedAt starts with today's
\* date, the elementwise sum of the nutrition of all the user's entries and
\* the elementwise sum over today's entries only.
C4_StatusTotals ==
  [][Handled("get_user_status") =>
       LET user == last'.data.user
           body == last'.body
           today == strftime(now)
       IN  IF user \in DOMAIN users_db
             THEN /\ last'.status = 200
                  /\ body.total_meals_logged = Cardinality(EntriesOf(user))
                  /\ body.meals_today = Cardinality(EntriesOn(user, today))
                  /\ \A n \in Nutrients :
                       /\ body.total_nutrition_consumed[n] = SumOver(EntriesOf(user), meals_db, n)
                       /\ body.today_nutrition[n] = SumOver(EntriesOn(user, today), meals_db, n)
             ELSE last'.status = 404]_vars

\* amy's status with an entry of an earlier date and an entry of today.
C4_Witness ==
  /\ last.op = "get_user_status"
  /\ last.status = 200
  /\ last.data.user = "amy"
  /\ last.body.total_meals_logged = 2
  /\ last.body.meals_today = 1
  /\ last.body.today_nutrition["calories"] > 0
  /\ last.body.total_nutrition_consumed["calories"] > last.body.today_nutrition["calories"]

Count(l, name) == Cardinality({i \in DOMAIN l : l[i] = name})

RECURSIVE CatalogSum(_, _, _)
CatalogSum(names, l, nutrient) ==
  IF names = {} THEN 0
  ELSE LET name == CHOOSE x \in names : TRUE
       IN  Count(l, name) * food_db[name][nutrient] + CatalogSum(names \ {name}, l, nutrient)

Permuted(l) == {[i \in DOMAIN l |-> l[p[i]]] : p \in Permutations(DOMAIN l)}

\* C5: calculate_nutrition returns zero totals for the empty list and for a
\* list of names that are all absent from the catalog, and for every list the
\* totals of each of its permutations, which are the sums of the facts of the
\* recognized items counted with multiplicity.
C5_AggregateSums ==
  last.op = "calculate_nutrition" =>
    LET l == last.data.food_items
    IN  /\ \A n \in Nutrients : last.body[n] = CatalogSum(DOMAIN food_db, l, n)
        /\ \A q \in Permuted(l) : calculate_nutrition(q) = last.body
        /\ (\A i \in DOMAIN l : l[i] \notin DOMAIN food_db) => last.body = ZeroNutrition

\* A list with a repeated catalog name and an unknown name between.
C5_Witness ==
  /\ last.op = "calculate_nutrition"
  /\ last.data.food_items = <<"Dal", "Pizza", "Dal">>
  /\ last.body = Fact(360, 24, 40, 10)

RegisterCreated(t) ==
  /\ pc[t] = "done"
  /\ local[t].op = "register"
  /\ local[t].status = 201

\* C6: under any interleaving of register and webhook requests a record once
\* stored in users_db is never replaced, and no two register requests for
\* the same name are both answered 201.
C6_AtomicRegistration ==
  [][/\ \A k \in DOMAIN users_db : k \in DOMAIN users_db' /\ users_db'[k] = users_db[k]
     /\ \A t1, t2 \in Threads :
          (t1 # t2 /\ RegisterCreated(t1)' /\ RegisterCreated(t2)')
            => local'[t1].body.name # local'[t2].body.name]_vars

\* C7: the bmr of every stored record is the Mifflin-St Jeor value of its
\* gender, weight, height and age rounded to two decimals.
C7_RoundedBmr ==
  \A k \in DOMAIN users_db :
    LET u == users_db[k]
    IN  u.bmr \in round2(calculate_bmr(u.gender, u.weight, u.height, u.age).f)

InRange(x, upper) == ~x.nan /\ x.v > 0 /\ x.v <= upper

\* C8: every stored record is keyed by its name, which is non-empty and has
\* no leading or trailing whitespace; its age is in (0,150], its weight in
\* (0,500], its height in (0,300], its gender is "male" or "female" and its
\* goal is non-empty.
C8_ValidRecords ==
  \A k \in DOMAIN users_db :
    LET u == users_db[k]
    IN  /\ u.name = k
        /\ k # ""
        /\ CharAt(k, 1) \notin Whitespace
        /\ CharAt(k, Len(k)) \notin Whitespace
        /\ InRange(u.age, 150)
        /\ InRange(u.weight, 500)
        /\ InRange(u.height, 300)
        /\ u.gender \in {"male", "female"}
        /\ ~Falsy(u.goal)

\* C9: every step leaves meals_db as it was or appends one entry to it, the
\* latter only in a log request answered 201; a request answered 400, 404 or
\* 409 and every query leave users_db and meals_db as they were.
C9_AppendOnly ==
  [][/\ \/ meals_db' = meals_db
        \/ /\ Len(meals_db') = Len(meals_db) + 1
           /\ SubSeq(meals_db', 1, Len(meals_db)) = meals_db
           /\ last'.op \in {"log_meals", "webhook"}
           /\ last'.status = 201
     /\ (last'.status \in {400, 404, 409}
           \/ last'.op \in {"get_user_meals", "get_user_meals_by_date", "get_user_status"})
          => (users_db' = users_db /\ meals_db' = meals_db)
     /\ users_db' # users_db => last'.status = 201]_vars

\* A request refused with 404 after two entries were appended.
C9_Witness ==
  /\ Len(meals_db) = 2
  /\ meals_db[1].userId # meals_db[2].userId
  /\ last.op = "log_meals"
  /\ last.status = 404

\* C10: every entry of meals_db has a userId that is a key of users_db, a
\* mealType among Breakfast, Lunch, Dinner, Snack, and a non-empty foodItems.
C10_EntriesWellFormed ==
  \A i \in DOMAIN meals_db :
    /\ meals_db[i].userId \in DOMAIN users_db
    /\ meals_db[i].mealType \in {"Breakfast", "Lunch", "Dinner", "Snack"}
    /\ meals_db[i].foodItems # <<>>

\* An entry logged through /log_meals and an entry logged through /webhook.
C10_Witness ==
  /\ Len(meals_db) = 2
  /\ \E i, j \in DOMAIN meals_db :
       /\ meals_db[i].userId = "default_user"
       /\ meals_db[i].mealType = "Dinner"
       /\ meals_db[j].userId = "amy"
       /\ meals_db[j].foodItems = <<"Pizza", "Dal", "Dal">>


====
